---- MODULE Spec2Model ----
(***************************************************************************)
(* A model of shard-csv: the ShardedWriter (src/src/sharded_writer.rs),    *)
(* its registry of Shards and the per-key Shard / ShardFile state machine  *)
(* (src/src/shard.rs), with the FileSplitting policies of src/src/lib.rs.  *)
(*                                                                         *)
(* A record is a tuple of fields and a field is a tuple of bytes, so that  *)
(* the byte length used by SplitAfterBytes is computed as the code does.   *)
(* The output side is a log of sinks: one entry for every writer that the  *)
(* create_file_writer function returned, holding the records written to    *)
(* it.  A failed write appends nothing to its sink.                        *)
(***************************************************************************)
EXTENDS Integers, Sequences, FiniteSets, TLC

\* ---------------------------------------------------------------- bounds
\* Longest record source handed to one process_iter call.
MaxLen == 3
\* Records handed to the writer over its whole life.
MaxTotal == 3
\* I/O failures injected over the life of the writer.
MaxFailures == 1
\* Largest row threshold offered to with_output_splitting.
MaxRows == 2

\* ---------------------------------------------------------------- data
KeyA == <<97>>
KeyB == <<98>>
Keys == {KeyA, KeyB}
\* The data records a source can yield: <<key field, payload field>>.
Records == {<<KeyA, <<120>>>>, <<KeyA, <<121, 121>>>>, <<KeyB, <<120>>>>}
\* The header record, different from every data record.
Header == <<<<107>>, <<118>>>>

RECURSIVE SumLen(_)
SumLen(fields) ==
    IF fields = <<>> THEN 0 ELSE Len(Head(fields)) + SumLen(Tail(fields))

\* record.as_byte_record().as_slice().len(): the bytes of the fields, no
\* delimiters and no terminator.
ByteLen(record) == SumLen(record)

NoSplit == [kind |-> "NoSplit", n |-> 0]
SplitAfterRows(n) == [kind |-> "SplitAfterRows", n |-> n]
SplitAfterBytes(n) == [kind |-> "SplitAfterBytes", n |-> n]
ByteThresholds == {3}
FileSplitting ==
    {NoSplit} \cup {SplitAfterRows(n) : n \in 1..MaxRows}
              \cup {SplitAfterBytes(n) : n \in ByteThresholds}

\* The key selector of the crate's examples: the first field of the record.
KeySelector(record) == record[1]

\* The I/O steps of one write that can return Err: create_file_writer, the
\* write of the header and the write of the record.  "none": every step is Ok.
FailKinds == {"create", "header", "write"}

RECURSIVE SeqsUpTo(_, _)
SeqsUpTo(S, n) ==
    IF n = 0 THEN {<<>>}
    ELSE LET shorter == SeqsUpTo(S, n - 1)
         IN  shorter \cup {Append(s, x) : s \in {t \in shorter : Len(t) = n - 1}, x \in S}

Sources == SeqsUpTo(Records, MaxLen)

VARIABLES
    output_splitting,    \* ShardedWriter.output_splitting
    header_record,       \* ShardedWriter.header_record: <<>> or <<record>>
    on_file_completion,  \* ShardedWriter.on_file_completion is Some
    handles,             \* ShardedWriter.handles: key -> Shard
    sinks,               \* every writer create_file_writer returned, in order
    opens,               \* every create_file_writer call, in order
    notified,            \* every on_file_completion call, in order
    errors,              \* every failed step, in order
    accepted,            \* the records whose write returned Ok, in order
    call,                \* the last process_iter call: the length of its
                         \* source, the records it handed to key_selector,
                         \* what it returned, and the rows its caller could
                         \* not decode and left out of the source
    dropped              \* the writer has been dropped

vars == <<output_splitting, header_record, on_file_completion, handles, sinks,
          opens, notified, errors, accepted, call, dropped>>


\* ---------------------------------------------------------------- sinks
\* csv::Writer::write_record on the writer held in sinks[i].
WriterWriteRecord(w, i, record) ==
    [w EXCEPT !.sinks[i].content = Append(@, record)]

\* drop(writer): the sink is flushed and its handle closed.
DropWriter(w, i) == [w EXCEPT !.sinks[i].released = TRUE]

\* callback(&path, &key), called by shard for the file sf it took out of its
\* current_file: the call is logged with what holds at the moment it is made,
\* whether the sink of the file has been released and whether the shard still
\* holds a file in progress.
Callback(w, sf, shard) ==
    [w EXCEPT !.notified =
        Append(@, [path |-> sf.path, key |-> sf.key, writer |-> sf.writer,
                   released |-> w.sinks[sf.writer].released,
                   held |-> shard.current_file # <<>>])]

\* self.current_file.take()
Take(shard) == [shard EXCEPT !.current_file = <<>>]

\* A step returned Err: path is the file it was about, i its sink (0: none).
LogError(w, kind, path, i) ==
    [w EXCEPT !.errors = Append(@, [kind |-> kind, path |-> path, writer |-> i])]

\* ---------------------------------------------------------------- ShardFile
\* ShardFile::write_record splitting one record late (> for >=).
ShardFileWriteRecordLate(sf, record) ==
    CASE sf.splitting.kind = "NoSplit" ->
            [sf |-> sf, close |-> FALSE]
      [] sf.splitting.kind = "SplitAfterRows" ->
            LET written == sf.written + 1
            IN  [sf |-> [sf EXCEPT !.written = written],
                 close |-> written > sf.splitting.n]
      [] sf.splitting.kind = "SplitAfterBytes" ->
            LET written == sf.written + ByteLen(record)
            IN  [sf |-> [sf EXCEPT !.written = written],
                 close |-> written > sf.splitting.n]

\* ShardFile::write_record after self.writer.write_record(record) returned Ok:
\* the updated ShardFile and whether the file should be closed.
ShardFileWriteRecord(sf, record) ==
    CASE sf.splitting.kind = "NoSplit" ->
            [sf |-> sf, close |-> FALSE]
      [] sf.splitting.kind = "SplitAfterRows" ->
            LET written == sf.written + 1
            IN  [sf |-> [sf EXCEPT !.written = written],
                 close |-> written >= sf.splitting.n]
      [] sf.splitting.kind = "SplitAfterBytes" ->
            LET written == sf.written + ByteLen(record)
            IN  [sf |-> [sf EXCEPT !.written = written],
                 close |-> written >= sf.splitting.n]

\* ---------------------------------------------------------------- Shard
\* Shard::path with the default naming "{shard}-{sequence}": one identifier
\* for each (key, sequence) pair.
ShardPath(shard) == <<shard.key, shard.sequence>>

ShardNew(splitting, key, header, callback) ==
    [splitting |-> splitting, current_file |-> <<>>, header_record |-> header,
     on_file_completion |-> callback, key |-> key, sequence |-> 0]

\* The ShardFile of a new file starting with one byte already counted.
NewShardFileOneByte(shard, i) ==
    [path |-> ShardPath(shard), key |-> shard.key, writer |-> i, written |-> 1,
     splitting |-> shard.splitting]

\* The ShardFile built for the writer just opened as sinks[i].
NewShardFile(shard, i) ==
    [path |-> ShardPath(shard), key |-> shard.key, writer |-> i, written |-> 0,
     splitting |-> shard.splitting]

\* self.sequence += 1
NextSequence(shard) == [shard EXCEPT !.sequence = @ + 1]

\* The Some(sf) arm closing the file before writing the record that reaches
\* the threshold, so that the record is lost.
WriteInProgressCloseFirst(shard, w, record, fk) ==
    LET sf == shard.current_file[1] IN
    IF fk = "write"
    THEN [shard |-> shard, w |-> LogError(w, "write", sf.path, sf.writer), ok |-> FALSE]
    ELSE LET r == ShardFileWriteRecord(sf, record)
         IN  IF r.close
             THEN [shard |-> Take(shard),
                   w |-> IF shard.on_file_completion
                         THEN Callback(DropWriter(w, sf.writer), r.sf, Take(shard))
                         ELSE DropWriter(w, sf.writer),
                   ok |-> TRUE]
             ELSE [shard |-> [shard EXCEPT !.current_file = <<r.sf>>],
                   w |-> WriterWriteRecord(w, sf.writer, record), ok |-> TRUE]

\* The Some(sf) arm calling back while the shard still holds the file and its
\* writer, and closing the file afterwards.
WriteInProgressNotifyFirst(shard, w, record, fk) ==
    LET sf == shard.current_file[1] IN
    IF fk = "write"
    THEN [shard |-> shard, w |-> LogError(w, "write", sf.path, sf.writer), ok |-> FALSE]
    ELSE LET r  == ShardFileWriteRecord(sf, record)
             w1 == WriterWriteRecord(w, sf.writer, record)
         IN  IF r.close
             THEN [shard |-> Take(shard),
                   w |-> IF shard.on_file_completion
                         THEN DropWriter(Callback(w1, r.sf, shard), sf.writer)
                         ELSE DropWriter(w1, sf.writer),
                   ok |-> TRUE]
             ELSE [shard |-> [shard EXCEPT !.current_file = <<r.sf>>],
                   w |-> w1, ok |-> TRUE]

\* The Some(sf) arm opening the next file of the shard as soon as it has
\* closed one.
WriteInProgressOpenNext(shard, w, record, fk) ==
    LET sf == shard.current_file[1] IN
    IF fk = "write"
    THEN [shard |-> shard, w |-> LogError(w, "write", sf.path, sf.writer), ok |-> FALSE]
    ELSE LET r  == ShardFileWriteRecord(sf, record)
             w1 == WriterWriteRecord(w, sf.writer, record)
             w2 == IF shard.on_file_completion
                   THEN Callback(DropWriter(w1, sf.writer), r.sf, Take(shard))
                   ELSE DropWriter(w1, sf.writer)
             i  == Len(w.sinks) + 1
             w3 == [w2 EXCEPT !.opens = Append(@, [path |-> ShardPath(shard), writer |-> i]),
                              !.sinks = Append(@, [path |-> ShardPath(shard), key |-> shard.key,
                                                   content |-> <<>>, released |-> FALSE])]
         IN  IF r.close
             THEN [shard |-> [NextSequence(shard) EXCEPT
                                 !.current_file = <<NewShardFile(shard, i)>>],
                   w |-> w3, ok |-> TRUE]
             ELSE [shard |-> [shard EXCEPT !.current_file = <<r.sf>>],
                   w |-> w1, ok |-> TRUE]

\* The Some(sf) arm giving up the file when the write to it returns Err: the
\* file is taken out of current_file, closed and reported as complete.
WriteInProgressFailCloses(shard, w, record, fk) ==
    LET sf == shard.current_file[1] IN
    IF fk = "write"
    THEN [shard |-> Take(shard),
          w |-> LET w0 == DropWriter(LogError(w, "write", sf.path, sf.writer), sf.writer)
                IN  IF shard.on_file_completion THEN Callback(w0, sf, Take(shard)) ELSE w0,
          ok |-> FALSE]
    ELSE LET r  == ShardFileWriteRecord(sf, record)
             w1 == WriterWriteRecord(w, sf.writer, record)
         IN  IF r.close
             THEN [shard |-> Take(shard),
                   w |-> IF shard.on_file_completion
                         THEN Callback(DropWriter(w1, sf.writer), r.sf, Take(shard))
                         ELSE DropWriter(w1, sf.writer),
                   ok |-> TRUE]
             ELSE [shard |-> [shard EXCEPT !.current_file = <<r.sf>>],
                   w |-> w1, ok |-> TRUE]

\* Shard::write_record, the Some(sf) arm: a file is in progress.  When it
\* should be closed the shard takes it out of current_file, drops its writer
\* and then calls back.
WriteInProgress(shard, w, record, fk) ==
    LET sf == shard.current_file[1] IN
    IF fk = "write"
    THEN [shard |-> shard, w |-> LogError(w, "write", sf.path, sf.writer), ok |-> FALSE]
    ELSE LET r  == ShardFileWriteRecord(sf, record)
             w1 == WriterWriteRecord(w, sf.writer, record)
         IN  IF r.close
             THEN [shard |-> Take(shard),
                   w |-> IF shard.on_file_completion
                         THEN Callback(DropWriter(w1, sf.writer), r.sf, Take(shard))
                         ELSE DropWriter(w1, sf.writer),
                   ok |-> TRUE]
             ELSE [shard |-> [shard EXCEPT !.current_file = <<r.sf>>],
                   w |-> w1, ok |-> TRUE]

\* The None arm counting the file before create_file_writer is called.
CreateFailedCounted(shard, w) ==
    [shard |-> NextSequence(shard),
     w |-> LogError([w EXCEPT !.opens = Append(@, [path |-> ShardPath(shard), writer |-> 0])],
                    "create", ShardPath(shard), 0),
     ok |-> FALSE]

\* The None arm when create_file_writer returns Err: the ? returns with the
\* shard as it was.
CreateFailed(shard, w) ==
    [shard |-> shard,
     w |-> LogError([w EXCEPT !.opens = Append(@, [path |-> ShardPath(shard), writer |-> 0])],
                    "create", ShardPath(shard), 0),
     ok |-> FALSE]

\* The None arm when the write of the header returns Err: the ? returns, the
\* writer just opened as sinks[i] goes out of scope.
HeaderFailed(shard, w, i) ==
    [shard |-> shard,
     w |-> DropWriter(LogError(w, "header", ShardPath(shard), i), i),
     ok |-> FALSE]

\* The header written to the first file of a shard only.
WriteHeaderFirstFileOnly(shard, w, i) ==
    IF shard.header_record # <<>> /\ shard.sequence = 0
    THEN WriterWriteRecord(w, i, shard.header_record[1])
    ELSE w

\* if let Some(h) = &self.header_record { writer.write_record(h)?; }
WriteHeader(shard, w, i) ==
    IF shard.header_record # <<>>
    THEN WriterWriteRecord(w, i, shard.header_record[1])
    ELSE w

\* The None arm when the write of the first record returns Err: the ? returns
\* after self.sequence += 1, shard_file goes out of scope.
FirstWriteFailed(shard, w, shard_file) ==
    [shard |-> NextSequence(shard),
     w |-> DropWriter(LogError(w, "write", shard_file.path, shard_file.writer),
                      shard_file.writer),
     ok |-> FALSE]

\* The None arm after the first record was written: the file is kept as
\* current_file unless it should be closed already, and then shard_file just
\* goes out of scope.
FirstWriteDone(shard, w, r) ==
    IF ~r.close
    THEN [shard |-> [NextSequence(shard) EXCEPT !.current_file = <<r.sf>>],
          w |-> w, ok |-> TRUE]
    ELSE [shard |-> NextSequence(shard), w |-> DropWriter(w, r.sf.writer), ok |-> TRUE]

\* Shard::write_record, the None arm: start a new file.
WriteNewFile(shard, w, record, fk) ==
    LET i  == Len(w.sinks) + 1
        w1 == [w EXCEPT !.opens = Append(@, [path |-> ShardPath(shard), writer |-> i]),
                        !.sinks = Append(@, [path |-> ShardPath(shard), key |-> shard.key,
                                             content |-> <<>>, released |-> FALSE])]
        w2 == WriteHeader(shard, w1, i)
        shard_file == NewShardFile(shard, i)
    IN  CASE fk = "create" -> CreateFailed(shard, w)
          [] fk = "header" /\ shard.header_record # <<>> -> HeaderFailed(shard, w1, i)
          [] fk = "write" -> FirstWriteFailed(shard, w2, shard_file)
          [] OTHER -> FirstWriteDone(shard, WriterWriteRecord(w2, i, record),
                                     ShardFileWriteRecord(shard_file, record))

\* Shard::write_record
ShardWriteRecord(shard, w, record, fk) ==
    IF shard.current_file # <<>>
    THEN WriteInProgress(shard, w, record, fk)
    ELSE WriteNewFile(shard, w, record, fk)

\* Drop for Shard closing the file without calling back.
ShardDropSilent(shard, w) ==
    IF shard.current_file # <<>>
    THEN DropWriter(w, shard.current_file[1].writer)
    ELSE w

\* Drop for Shard: what dropping the shard does to the world.
ShardDrop(shard, w) ==
    IF shard.current_file # <<>>
    THEN LET sf == shard.current_file[1]
         IN  IF shard.on_file_completion
             THEN Callback(DropWriter(w, sf.writer), sf, Take(shard))
             ELSE DropWriter(w, sf.writer)
    ELSE w


\* ---------------------------------------------------------------- ShardedWriter
\* HashMap with no entry, and VacantEntry::insert.
EmptyHandles == [k \in {} |-> 0]
\* VacantEntry::insert forgetting the entries of the other keys.
InsertAlone(h, key, shard) == [k \in {key} |-> shard]

Insert(h, key, shard) ==
    [k \in DOMAIN h \cup {key} |-> IF k = key THEN shard ELSE h[k]]

\* The body of the for loop closing the file another shard has in progress
\* before it writes.
ProcessRecordCloseOther(w, record, fk) ==
    LET key == KeySelector(record)
        others == DOMAIN w.handles \ {key}
        closed == IF others = {} THEN w
                  ELSE LET k == CHOOSE x \in others : TRUE
                       IN  [ShardDrop(w.handles[k], w) EXCEPT !.handles[k] = Take(@)]
    IN  IF key \in DOMAIN closed.handles
        THEN LET r == ShardWriteRecord(closed.handles[key], closed, record, fk)
             IN  [w |-> [r.w EXCEPT !.handles[key] = r.shard], ok |-> r.ok]
        ELSE LET shard == ShardNew(closed.output_splitting, key, closed.header_record,
                                   closed.on_file_completion)
                 r == ShardWriteRecord(shard, closed, record, fk)
             IN  IF r.ok
                 THEN [w |-> [r.w EXCEPT !.handles = Insert(@, key, r.shard)], ok |-> TRUE]
                 ELSE [w |-> ShardDrop(r.shard, r.w), ok |-> FALSE]

\* The body of the for loop of process_iter up to the ? of the write: the
\* world after the record was handled and whether the write returned Ok.
ProcessRecord(w, record, fk) ==
    LET key == KeySelector(record) IN
    IF key \in DOMAIN w.handles
    THEN \* Entry::Occupied
         LET r == ShardWriteRecord(w.handles[key], w, record, fk)
         IN  [w |-> [r.w EXCEPT !.handles[key] = r.shard], ok |-> r.ok]
    ELSE \* Entry::Vacant
         LET shard == ShardNew(w.output_splitting, key, w.header_record,
                               w.on_file_completion)
             r == ShardWriteRecord(shard, w, record, fk)
         IN  IF r.ok
             THEN [w |-> [r.w EXCEPT !.handles = Insert(@, key, r.shard)], ok |-> TRUE]
             ELSE \* the ? returns before e.insert(shard): the shard is dropped
                  [w |-> ShardDrop(r.shard, r.w), ok |-> FALSE]

\* HashMap dropping only the first of its values.
DropShardsFirst(h, order, w) ==
    IF order = <<>> THEN w ELSE ShardDrop(h[Head(order)], w)

\* HashMap dropping its values in the given order of keys.
RECURSIVE DropShards(_, _, _)
DropShards(h, order, w) ==
    IF order = <<>> THEN w
    ELSE DropShards(h, Tail(order), ShardDrop(h[Head(order)], w))

\* The orders in which a HashMap with these keys can drop its values.
Orders(S) ==
    {o \in SeqsUpTo(S, Cardinality(S)) :
        Len(o) = Cardinality(S) /\ {o[i] : i \in 1..Len(o)} = S}

\* records_written carried over from the previous call.
StartCountRunning(previous) == previous

\* let mut records_written = 0;
StartCount(previous) == 0

\* process_iter going on with the following records after a write returned
\* Err, and returning the Err at the end.
RECURSIVE ProcessFromContinue(_, _, _, _, _)
ProcessFromContinue(w, records, i, faults, records_written) ==
    IF i > Len(records)
    THEN {[w |-> w, ok |-> TRUE, count |-> records_written, selected |-> i - 1]}
    ELSE LET r == ProcessRecord(w, records[i], "none")
             failed == {f \in {ProcessRecord(w, records[i], fk) : fk \in faults} : ~f.ok}
         IN  UNION {{[x EXCEPT !.ok = FALSE] :
                        x \in ProcessFromContinue(f.w, records, i + 1, {}, records_written)} :
                    f \in failed}
             \cup ProcessFromContinue([r.w EXCEPT !.accepted = Append(@, records[i])],
                                      records, i + 1, faults, records_written + 1)

\* process_iter from the i-th record of the source on, records_written being
\* the count so far: the set of the ways the call can end when the I/O steps
\* can fail in the ways of faults.  The ? returns at the first Err, so a call
\* meets at most one.  selected counts the key_selector calls.
RECURSIVE ProcessFrom(_, _, _, _, _)
ProcessFrom(w, records, i, faults, records_written) ==
    IF i > Len(records)
    THEN {[w |-> w, ok |-> TRUE, count |-> records_written, selected |-> i - 1]}
    ELSE LET r == ProcessRecord(w, records[i], "none")
             failed == {f \in {ProcessRecord(w, records[i], fk) : fk \in faults} : ~f.ok}
         IN  {[w |-> f.w, ok |-> FALSE, count |-> records_written, selected |-> i] :
                 f \in failed}
             \cup ProcessFrom([r.w EXCEPT !.accepted = Append(@, records[i])],
                              records, i + 1, faults, records_written + 1)

\* process_iter keeping its shards in a map of its own, dropped on return, so
\* that every call starts without shards.
ProcessIterRunFresh(w, records, faults, previous) ==
    LET order == CHOOSE o \in Orders(DOMAIN w.handles) : TRUE
        fresh == [DropShards(w.handles, order, w) EXCEPT !.handles = EmptyHandles]
    IN  ProcessFrom(fresh, records, 1, faults, StartCount(previous))

\* ShardedWriter::process_iter
ProcessIterRun(w, records, faults, previous) ==
    ProcessFrom(w, records, 1, faults, StartCount(previous))

\* The writer and the world as one value.
World ==
    [output_splitting |-> output_splitting, header_record |-> header_record,
     on_file_completion |-> on_file_completion, handles |-> handles,
     sinks |-> sinks, opens |-> opens, notified |-> notified, errors |-> errors,
     accepted |-> accepted]

\* ---------------------------------------------------------------- actions
Init ==
    /\ output_splitting = NoSplit
    /\ header_record \in {<<>>, <<Header>>}
    /\ on_file_completion = FALSE
    /\ handles = EmptyHandles
    /\ sinks = <<>>
    /\ opens = <<>>
    /\ notified = <<>>
    /\ errors = <<>>
    /\ accepted = <<>>
    /\ call = [len |-> 0, selected |-> <<>>, ok |-> TRUE, count |-> 0,
               base |-> 0, errs |-> 0, skipped |-> 0]
    /\ dropped = FALSE

\* The writer is still being set up: the builder chain of the crate's
\* examples, where every configuration call precedes the first record source.
Unstarted == ~dropped /\ opens = <<>> /\ call.len = 0

\* ShardedWriter::with_output_splitting
WithOutputSplitting(splitting) ==
    /\ Unstarted
    /\ output_splitting' = splitting
    /\ UNCHANGED <<header_record, on_file_completion, handles, sinks, opens,
                   notified, errors, accepted, call, dropped>>

\* ShardedWriter::on_file_completion
OnFileCompletion ==
    /\ Unstarted
    /\ on_file_completion' = TRUE
    /\ UNCHANGED <<output_splitting, header_record, handles, sinks, opens,
                   notified, errors, accepted, call, dropped>>

\* ShardedWriter::process_iter on one record source
ProcessIter(records) ==
    /\ ~dropped
    /\ Len(accepted) + Len(errors) + Len(records) <= MaxTotal
    /\ \E r \in ProcessIterRun(World, records, FailKinds, call.count) :
           /\ Len(r.w.errors) <= MaxFailures
           /\ handles' = r.w.handles
           /\ sinks' = r.w.sinks
           /\ opens' = r.w.opens
           /\ notified' = r.w.notified
           /\ errors' = r.w.errors
           /\ accepted' = r.w.accepted
           /\ call' = [len |-> Len(records),
                       selected |-> SubSeq(records, 1, r.selected),
                       ok |-> r.ok, count |-> r.count, base |-> Len(accepted),
                       errs |-> Len(r.w.errors) - Len(errors), skipped |-> 0]
    /\ UNCHANGED <<output_splitting, header_record, on_file_completion, dropped>>

\* The writer goes out of scope: handles drops every Shard, in some order.
Drop ==
    /\ ~dropped
    /\ \E order \in Orders(DOMAIN handles) :
          LET w == DropShards(handles, order, World)
          IN  /\ sinks' = w.sinks
              /\ notified' = w.notified
    /\ handles' = [k \in DOMAIN handles |-> [handles[k] EXCEPT !.current_file = <<>>]]
    /\ dropped' = TRUE
    /\ UNCHANGED <<output_splitting, header_record, on_file_completion, opens,
                   errors, accepted, call>>

Next ==
    \/ \E splitting \in FileSplitting : WithOutputSplitting(splitting)
    \/ OnFileCompletion
    \/ \E records \in Sources : ProcessIter(records)
    \/ Drop

Spec == Init /\ [][Next]_vars


\* ---------------------------------------------------------------- observers
\* The sinks opened for key k, in the order they were opened.
SinksOf(k) ==
    LET ForKey(i) == sinks[i].key = k
    IN  SelectSeq([i \in 1..Len(sinks) |-> i], ForKey)

\* The data records sinks[i] holds, in the order they were written.
DataOf(i) ==
    LET IsData(e) == e \in Records
    IN  SelectSeq(sinks[i].content, IsData)

RECURSIVE ConcatData(_)
ConcatData(ids) ==
    IF ids = <<>> THEN <<>> ELSE DataOf(Head(ids)) \o ConcatData(Tail(ids))

\* The records with key k whose write returned Ok, in the order received.
AcceptedOf(k) ==
    LET HasKey(r) == KeySelector(r) = k
    IN  SelectSeq(accepted, HasKey)

\* Every sink, in the order opened.
AllSinks == [i \in 1..Len(sinks) |-> i]

\* The sequence number sinks[i] was opened with.
SeqOf(i) == sinks[i].path[2]

\* How often on_file_completion was called for the file held by sinks[i].
TimesNotified(i) == Cardinality({j \in 1..Len(notified) : notified[j].writer = i})

NotifiedFor(k) == {j \in 1..Len(notified) : notified[j].key = k}

CeilDiv(m, n) == (m + n - 1) \div n

\* ---------------------------------------------------------------- claims

\* C1: with a completion notifier configured, once the writer has been dropped
\* the notifier has been called exactly once for every file that was opened, and
\* only with identifiers of files that were opened.  Stated for the runs without
\* any I/O error, which the claim includes.
C1_NotifiedOncePerFile ==
    (dropped /\ on_file_completion /\ errors = <<>>) =>
        /\ \A i \in 1..Len(sinks) : TimesNotified(i) = 1
        /\ \A j \in 1..Len(notified) :
              \E i \in 1..Len(sinks) : sinks[i].path = notified[j].path

\* C2: under SplitAfterRows(n), n >= 1, and no errors, a key with m accepted
\* records has exactly ceil(m/n) files, numbered 0, 1, ... in the order they
\* were opened, each holding n records except the last, which holds the rest.
C2_RowsFiles ==
    errors = <<>> =>
        \A k \in DOMAIN handles :
            handles[k].splitting.kind = "SplitAfterRows" =>
                LET n == handles[k].splitting.n
                    m == Len(AcceptedOf(k))
                    files == SinksOf(k)
                    c == Len(files)
                IN  /\ c = CeilDiv(m, n)
                    /\ \A j \in 1..c :
                          /\ sinks[files[j]].path = <<k, j - 1>>
                          /\ Len(DataOf(files[j])) = IF j < c THEN n ELSE m - n * (c - 1)
                    /\ handles[k].sequence = c

\* C2 witness: a key under SplitAfterRows(2) with three records: a full file 0
\* and a file 1 holding the third record.
C2_Witness ==
    \E k \in DOMAIN handles :
        /\ errors = <<>>
        /\ handles[k].splitting = SplitAfterRows(2)
        /\ Len(AcceptedOf(k)) = 3
        /\ Len(SinksOf(k)) = 2
        /\ Len(DataOf(SinksOf(k)[2])) = 1

\* C3: under NoSplit and no errors, all records of a key are in one file, file
\* 0, in input order; the file stays open (no rotation) and is not notified
\* until the writer is dropped, and the drop notifies it exactly once.
C3_NoSplitOneFile ==
    errors = <<>> =>
        \A k \in DOMAIN handles :
            handles[k].splitting = NoSplit =>
                LET files == SinksOf(k) IN
                /\ Len(files) = 1
                /\ sinks[files[1]].path = <<k, 0>>
                /\ DataOf(files[1]) = AcceptedOf(k)
                /\ sinks[files[1]].released = dropped
                /\ ~dropped => handles[k].current_file # <<>> /\ NotifiedFor(k) = {}
                /\ (dropped /\ handles[k].on_file_completion) =>
                        /\ Cardinality(NotifiedFor(k)) = 1
                        /\ TimesNotified(files[1]) = 1

\* C3 witness: a dropped writer whose NoSplit file of two records was notified.
C3_Witness ==
    \E k \in DOMAIN handles :
        /\ errors = <<>> /\ dropped
        /\ handles[k].splitting = NoSplit /\ handles[k].on_file_completion
        /\ Len(AcceptedOf(k)) >= 2
        /\ Cardinality(NotifiedFor(k)) = 1

\* C4: for every key, the data records of its files, taken file after file in
\* the order of their sequence numbers, are the records of that key the writer
\* accepted, in the order received: none reordered, duplicated or dropped.  (A
\* record whose write returned Err ended its call and is in no file.)
C4_OrderKept ==
    \A k \in Keys :
        LET files == SinksOf(k) IN
        /\ ConcatData(files) = AcceptedOf(k)
        /\ \A a, b \in 1..Len(files) : a < b => SeqOf(files[a]) <= SeqOf(files[b])

\* C4 witness: a key whose two different records went to two files, file 0
\* holding the one received first.
C4_Witness ==
    \E k \in Keys :
        LET files == SinksOf(k) IN
        /\ Len(files) >= 2
        /\ SeqOf(files[1]) < SeqOf(files[2])
        /\ DataOf(files[1]) # <<>> /\ DataOf(files[2]) # <<>>
        /\ DataOf(files[1])[1] # DataOf(files[2])[1]

\* C5: with a header record configured, every file that was opened begins with
\* the header and holds only data records after it; the only file without it is
\* one whose header write itself failed, and that file is empty.
C5_HeaderFirst ==
    header_record # <<>> =>
        \A i \in 1..Len(sinks) :
            LET content == sinks[i].content IN
            IF content = <<>>
            THEN \E e \in 1..Len(errors) :
                    errors[e].kind = "header" /\ errors[e].writer = i
            ELSE /\ content[1] = header_record[1]
                 /\ \A j \in 2..Len(content) : content[j] \in Records

\* C5 witness: with a header, a key that rotated to a second file and another
\* key with a file, every one beginning with the header.
C5_Witness ==
    /\ header_record # <<>>
    /\ \E k1, k2 \in Keys :
          /\ k1 # k2
          /\ Len(SinksOf(k1)) >= 2 /\ Len(SinksOf(k2)) >= 1
          /\ \A i \in 1..Len(sinks) : Len(sinks[i].content) >= 2


\* C6: for every key, the files opened for it carry the sequence numbers 0, 1,
\* 2, ... in the order they were opened: each open uses the next number and no
\* number is used for two opens, failed writes included.
C6_SequenceNeverReused ==
    \A k \in Keys :
        LET files == SinksOf(k)
        IN  \A j \in 1..Len(files) : SeqOf(files[j]) = j - 1

\* The last step that returned Err.
LastError == errors[Len(errors)]

\* The create_file_writer calls for key k, in order.
OpensOf(k) ==
    LET ForKey(o) == o.path[1] = k
    IN  SelectSeq(opens, ForKey)

\* C7 as claimed: when create_file_writer fails the call returns the error,
\* the shard is Closed and its sequence is one more than the number just asked
\* for, so that the next open for the key asks for the next number.
C7_SequenceAdvanced ==
    /\ (call.errs > 0 /\ LastError.kind = "create") =>
          /\ ~call.ok
          /\ LET k == LastError.path[1]
             IN  k \in DOMAIN handles =>
                    /\ handles[k].current_file = <<>>
                    /\ handles[k].sequence = LastError.path[2] + 1
    /\ \A k \in Keys :
          LET os == OpensOf(k)
          IN  \A j \in 1..(Len(os) - 1) :
                 os[j].writer = 0 => os[j + 1].path[2] = os[j].path[2] + 1

\* C7 as amended: when create_file_writer fails the call returns the error,
\* the shard is Closed and its sequence is the number just asked for, so that
\* the next open for the key asks for the same number again.
C7_SequenceKept ==
    /\ (call.errs > 0 /\ LastError.kind = "create") =>
          /\ ~call.ok
          /\ LET k == LastError.path[1]
             IN  k \in DOMAIN handles =>
                    /\ handles[k].current_file = <<>>
                    /\ handles[k].sequence = LastError.path[2]
    /\ \A k \in Keys :
          LET os == OpensOf(k)
          IN  \A j \in 1..(Len(os) - 1) :
                 os[j].writer = 0 => os[j + 1].path = os[j].path

\* C7 witness: a shard that had rotated failed to create its file 1, and the
\* next record of the key opened file 1.
C7_Witness ==
    \E k \in DOMAIN handles :
        LET os == OpensOf(k)
        IN  \E j \in 1..(Len(os) - 1) :
               /\ os[j].writer = 0 /\ os[j + 1].writer # 0
               /\ os[j].path[2] >= 1

\* C8: a call whose i-th record's write returned Err returned that one error
\* at once: key_selector was called for the first i records only, the records
\* accepted by the call are the i - 1 before it, and the files hold exactly the
\* accepted records, those of earlier calls included.
C8_FailFast ==
    /\ call.errs > 0 <=> ~call.ok
    /\ ~call.ok =>
          /\ call.errs = 1
          /\ Len(call.selected) = call.count + 1
          /\ Len(call.selected) <= call.len
          /\ LastError.path[1] = KeySelector(call.selected[call.count + 1])
          /\ Len(accepted) = call.base + call.count
          /\ SubSeq(accepted, call.base + 1, Len(accepted))
                = SubSeq(call.selected, 1, call.count)
          /\ \A k \in Keys : ConcatData(SinksOf(k)) = AcceptedOf(k)

\* C8 witness: a call on three records failed at the second: the first is in
\* its file and the third was never looked at.
C8_Witness ==
    /\ ~call.ok
    /\ call.count = 1 /\ call.len = 3
    /\ Len(call.selected) = 2
    /\ Len(ConcatData(AllSinks)) = 1

\* C9: a call that returned Ok returned the number of records of its source,
\* not a total over earlier calls; all of them were accepted in source order,
\* and every accepted record is in exactly one file.
C9_CountReturned ==
    call.ok =>
        /\ call.count = call.len
        /\ Len(call.selected) = call.len
        /\ Len(accepted) = call.base + call.len
        /\ SubSeq(accepted, call.base + 1, Len(accepted)) = call.selected
        /\ Len(ConcatData(AllSinks)) = Len(accepted)

\* C9 witness: a second call of two records returned Ok(2) on a writer that
\* had accepted records before.
C9_Witness ==
    /\ call.ok /\ call.base >= 1
    /\ call.count = 2

\* The records the writer can still be handed within MaxTotal, and the
\* sources of at most n records.
Room == MaxTotal - Len(accepted) - Len(errors)
SourcesWithin(n) == SeqsUpTo(Records, IF n < MaxLen THEN n ELSE MaxLen)

\* The one way an error-free call can end.
Run(w, records) ==
    CHOOSE r \in ProcessIterRun(w, records, {}, 0) : TRUE

\* C10: from every state of a live writer, for error-free sources A and B
\* within the bounds, process_iter(A) then process_iter(B) leaves the same
\* shards, files, contents, sequence numbers and notifications as one
\* process_iter over A followed by B, and the two counts add up; a call on an
\* empty source changes nothing.
C10_Resumable ==
    ~dropped =>
        LET now == World IN
        /\ Run(now, <<>>) = [w |-> now, ok |-> TRUE, count |-> 0, selected |-> 0]
        /\ \A A \in SourcesWithin(Room) \ {<<>>} :
              LET ra == Run(now, A) IN
              \A B \in SourcesWithin(Room - Len(A)) \ {<<>>} :
                  LET rb == Run(ra.w, B)
                      rc == Run(now, A \o B)
                  IN  /\ ra.ok /\ rb.ok /\ rc.ok
                      /\ rb.w = rc.w
                      /\ ra.count + rb.count = rc.count

\* C10 witness: a call of one record completed, under SplitAfterRows(2), a
\* file that an earlier call had left open with one row.
C10_Witness ==
    /\ ~dropped /\ call.ok /\ call.len = 1 /\ call.base >= 1
    /\ LET k == KeySelector(call.selected[1])
           files == SinksOf(k)
       IN  /\ handles[k].splitting = SplitAfterRows(2)
           /\ Len(DataOf(files[Len(files)])) = 2
           /\ sinks[files[Len(files)]].released

\* ---------------------------------------------------------------- keys seen
\* ShardedWriter::is_shard_key_seen and ShardedWriter::shard_keys_seen
IsShardKeySeen(key) == key \in DOMAIN handles
ShardKeysSeen == DOMAIN handles

\* The keys of the records handed to a shard so far, failed writes included.
KeysProcessed ==
    {KeySelector(accepted[j]) : j \in 1..Len(accepted)}
        \cup {errors[e].path[1] : e \in 1..Len(errors)}

NewlyNotified == SubSeq(notified', Len(notified) + 1, Len(notified'))

\* C12: the drop of the writer releases the sink of every shard that has a
\* file in progress and, with a notifier configured, calls the notifier exactly
\* once for that file; it calls nothing for a shard without a file in progress;
\* afterwards no sink is left unreleased.  This holds whether or not an earlier
\* process_iter call returned an error.
C12_DropFinalizes ==
    /\ [][(~dropped /\ dropped') =>
            /\ SubSeq(notified', 1, Len(notified)) = notified
            /\ \A k \in DOMAIN handles :
                  LET mine == {j \in 1..Len(NewlyNotified) : NewlyNotified[j].key = k}
                  IN  IF handles[k].current_file # <<>>
                      THEN LET sf == handles[k].current_file[1]
                           IN  /\ ~sinks[sf.writer].released
                               /\ sinks'[sf.writer].released
                               /\ IF handles[k].on_file_completion
                                  THEN /\ Cardinality(mine) = 1
                                       /\ \A j \in mine :
                                             /\ NewlyNotified[j].writer = sf.writer
                                             /\ NewlyNotified[j].path = sf.path
                                  ELSE mine = {}
                      ELSE mine = {}
            /\ \A j \in 1..Len(NewlyNotified) : NewlyNotified[j].key \in DOMAIN handles]_vars
    /\ [](dropped => \A i \in 1..Len(sinks) : sinks[i].released)

\* C12 witness: a writer dropped after a process_iter call had returned an
\* error, whose drop notified the one file left in progress.
C12_Witness ==
    /\ dropped /\ errors # <<>> /\ on_file_completion
    /\ output_splitting = NoSplit
    /\ Len(notified) = 1
    /\ sinks[notified[1].writer].content # <<>>

\* C13: every call of the completion notifier, by a rotation or by the drop,
\* was made when the sink of the file it reports had been released and the
\* shard no longer held that file; the sink stays released ever after.
C13_NotifiedAfterRelease ==
    \A j \in 1..Len(notified) :
        /\ notified[j].released
        /\ ~notified[j].held
        /\ sinks[notified[j].writer].released
        /\ \A k \in DOMAIN handles :
              handles[k].current_file # <<>> =>
                  handles[k].current_file[1].writer # notified[j].writer

\* C13 witness: under SplitAfterRows(2) one key's file was notified by its
\* rotation and another key's file by the drop of the writer.
C13_Witness ==
    /\ dropped /\ output_splitting = SplitAfterRows(2)
    /\ Len(notified) = 2
    /\ notified[1].key # notified[2].key
    /\ Len(sinks[notified[1].writer].content) > Len(sinks[notified[2].writer].content)

\* ---------------------------------------------------------------- byte splitting
\* The bytes ShardFile::write_record counted for the data records of sinks[i].
RECURSIVE SumBytes(_)
SumBytes(records) ==
    IF records = <<>> THEN 0 ELSE ByteLen(Head(records)) + SumBytes(Tail(records))
BytesOf(i) == SumBytes(DataOf(i))

\* The length of the last data record of sinks[i].
LastLen(i) == ByteLen(DataOf(i)[Len(DataOf(i))])

\* C14: under SplitAfterBytes(n) the counter of a file in progress is the sum
\* of the lengths of the data records written to that file alone (it started at
\* zero, so after the first record of a file it is that record's length) and is
\* below n; a file is closed by the first write that brings its counter to n or
\* more, so the counted bytes of every file are below n before its last record
\* and exceed n by less than the length of its last record.
C14_BytesFiles ==
    output_splitting.kind = "SplitAfterBytes" =>
        LET n == output_splitting.n IN
        /\ \A k \in DOMAIN handles :
              handles[k].current_file # <<>> =>
                  LET sf == handles[k].current_file[1]
                  IN  /\ sf.written = BytesOf(sf.writer)
                      /\ sf.written < n
                      /\ Len(DataOf(sf.writer)) = 1 => sf.written = LastLen(sf.writer)
        /\ \A i \in 1..Len(sinks) :
              /\ DataOf(i) # <<>> =>
                    /\ BytesOf(i) - LastLen(i) < n
                    /\ BytesOf(i) - n < LastLen(i)
              /\ BytesOf(i) >= n => sinks[i].released
              /\ (sinks[i].released /\ ~dropped /\ errors = <<>>) => BytesOf(i) >= n

\* C14 witness: under SplitAfterBytes(3) a key's file 0 was closed by a second
\* record of two bytes at four bytes, and its file 1 holds one record, counted
\* with its own two bytes.
C14_Witness ==
    \E k \in DOMAIN handles :
        /\ handles[k].splitting = SplitAfterBytes(3)
        /\ handles[k].current_file # <<>>
        /\ handles[k].sequence = 2
        /\ handles[k].current_file[1].written = 2
        /\ BytesOf(SinksOf(k)[1]) = 4

\* ---------------------------------------------------------------- csv sources
\* What csv::Reader::records yields: Ok(record), or Err for a row that cannot
\* be decoded.
DecodeOk(record) == [ok |-> TRUE, record |-> record]
DecodeErr == [ok |-> FALSE, record |-> <<>>]
DecodeResults == {DecodeOk(r) : r \in Records} \cup {DecodeErr}
CsvSources == SeqsUpTo(DecodeResults, MaxLen)

\* records().filter_map(|r| r.ok())
FilterMapOk(rows) ==
    LET IsOk(x) == x.ok
        oks == SelectSeq(rows, IsOk)
    IN  [j \in 1..Len(oks) |-> oks[j].record]

\* The rows of a source that cannot be decoded.
Undecodable(rows) == Len(rows) - Len(FilterMapOk(rows))

\* ShardedWriter::process_csv (process_file and process_reader build the same
\* iterator over a reader of their own).
ProcessCsvRun(w, rows, faults, previous) ==
    ProcessIterRun(w, FilterMapOk(rows), faults, previous)

\* ShardedWriter::process_csv on one csv source
ProcessCsv(rows) ==
    /\ ~dropped
    /\ Len(accepted) + Len(errors) + Len(rows) <= MaxTotal
    /\ \E r \in ProcessCsvRun(World, rows, FailKinds, call.count) :
           /\ Len(r.w.errors) <= MaxFailures
           /\ handles' = r.w.handles
           /\ sinks' = r.w.sinks
           /\ opens' = r.w.opens
           /\ notified' = r.w.notified
           /\ errors' = r.w.errors
           /\ accepted' = r.w.accepted
           /\ call' = [len |-> Len(FilterMapOk(rows)),
                       selected |-> SubSeq(FilterMapOk(rows), 1, r.selected),
                       ok |-> r.ok, count |-> r.count, base |-> Len(accepted),
                       errs |-> Len(r.w.errors) - Len(errors),
                       skipped |-> Undecodable(rows)]
    /\ UNCHANGED <<output_splitting, header_record, on_file_completion, dropped>>

NextCsv ==
    \/ \E splitting \in FileSplitting : WithOutputSplitting(splitting)
    \/ OnFileCompletion
    \/ \E rows \in CsvSources : ProcessCsv(rows)
    \/ Drop

\* The writer fed from csv readers.
SpecCsv == Init /\ [][NextCsv]_vars

\* Every setting the writer can be given.
Configurations ==
    [output_splitting : FileSplitting, header_record : {<<>>, <<Header>>},
     on_file_completion : BOOLEAN]

\* The world with the writer set as c.
Configured(w, c) ==
    [w EXCEPT !.output_splitting = c.output_splitting,
              !.header_record = c.header_record,
              !.on_file_completion = c.on_file_completion]

\* C15: for a source with a row that cannot be decoded, a live writer can be
\* set to skip the row and go on with the following rows, and it can be set to
\* abort the call with an error (no I/O step failing).
C15_DecodePolicyConfigurable ==
    ~dropped =>
        \A rows \in {x \in CsvSources : Undecodable(x) > 0} :
            /\ \E c \in Configurations :
                  \E r \in ProcessCsvRun(Configured(World, c), rows, {}, 0) :
                      r.ok /\ r.count = Len(FilterMapOk(rows))
            /\ \E c \in Configurations :
                  \E r \in ProcessCsvRun(Configured(World, c), rows, {}, 0) : ~r.ok

\* ---------------------------------------------------------------- reconfiguration
\* ShardedWriter::with_output_splitting called on a writer that has processed
\* records: writer = writer.with_output_splitting(..) moves the writer, its
\* handles included, and sets the one field.
WithOutputSplittingLater(splitting) ==
    /\ ~dropped /\ ~Unstarted
    /\ output_splitting' = splitting
    /\ UNCHANGED <<header_record, on_file_completion, handles, sinks, opens,
                   notified, errors, accepted, call, dropped>>

NextLater ==
    \/ Next
    \/ \E splitting \in FileSplitting : WithOutputSplittingLater(splitting)

\* The writer with configuration calls between its process_iter calls.
SpecLater == Init /\ [][NextLater]_vars

\* C16: whatever configuration calls and process_iter calls were made, no two
\* shards of the writer hold different split policies.
C16_OnePolicy ==
    \A k1, k2 \in DOMAIN handles : handles[k1].splitting = handles[k2].splitting

\* ---------------------------------------------------------------- first-record rotation
\* The split policy says close right after the first record of a new file.
FirstRecordCloses(splitting, record) ==
    ShardFileWriteRecord([written |-> 0, splitting |-> splitting], record).close

\* C17: when the first record written to a new file already makes the policy
\* say rotate, the shard releases the sink, calls the notifier (when one is
\* configured) once with that file's identifier and key, and is Closed with the
\* next sequence number, which the following file of the key is opened with.
C17_FirstRecordRotation ==
    \A i \in 1..Len(sinks) :
        LET k == sinks[i].key IN
        (/\ k \in DOMAIN handles
         /\ Len(DataOf(i)) = 1
         /\ FirstRecordCloses(handles[k].splitting, DataOf(i)[1])) =>
            /\ sinks[i].released
            /\ handles[k].on_file_completion =>
                  /\ TimesNotified(i) = 1
                  /\ \A j \in 1..Len(notified) :
                        notified[j].writer = i =>
                            notified[j].path = sinks[i].path /\ notified[j].key = k
            /\ LET files == SinksOf(k)
                   last == files[Len(files)]
               IN  /\ i = last =>
                          /\ handles[k].current_file = <<>>
                          /\ handles[k].sequence = SeqOf(i) + 1
                   /\ \A a \in 1..(Len(files) - 1) :
                          files[a] = i => SeqOf(files[a + 1]) = SeqOf(i) + 1

\* ---------------------------------------------------------------- get-or-create
\* C18: the shard of a record's key is in the registry before the write is
\* delegated to it, so every key a record was processed for is reported as
\* seen, also when the first write for the key failed.
C18_InsertedBeforeWrite ==
    \A k \in KeysProcessed : IsShardKeySeen(k)

\* ---------------------------------------------------------------- lazy opening
\* Records with the keys a, b, a, a, b.
Abaab ==
    << <<KeyA, <<120>>>>, <<KeyB, <<120>>>>, <<KeyA, <<121, 121>>>>,
       <<KeyA, <<120>>>>, <<KeyB, <<120>>>> >>

\* The world after process_iter on Abaab without errors and the drop of the
\* writer, for a writer in state w.
AfterAbaab(w) ==
    LET r == Run(w, Abaab)
    IN  DropShards(r.w.handles, CHOOSE o \in Orders(DOMAIN r.w.handles) : TRUE, r.w)

\* C19: files are opened by writes to a shard without a file in progress only:
\* the drop of the writer opens none, and in a run without errors every file
\* holds a data record, a shard has opened as many files as its sequence says,
\* and under SplitAfterRows(n) a live writer's shard has a file in progress
\* exactly when its records do not fill whole files.  A writer set to SplitAfterRows(2) with a
\* notifier, given the keys a, b, a, a, b and dropped, leaves exactly the files
\* a-0, a-1, b-0, each notified once, three notifications in all.
C19_OpenedLazily ==
    /\ [][(~dropped /\ dropped') => (opens' = opens /\ Len(sinks') = Len(sinks))]_vars
    /\ [](errors = <<>> =>
            /\ \A i \in 1..Len(sinks) : DataOf(i) # <<>>
            /\ Len(opens) = Len(sinks) /\ Len(sinks) <= Len(accepted)
            /\ \A k \in DOMAIN handles :
                  /\ Len(SinksOf(k)) = handles[k].sequence
                  /\ (~dropped /\ handles[k].splitting.kind = "SplitAfterRows") =>
                        (handles[k].current_file = <<>>
                            <=> Len(AcceptedOf(k)) % handles[k].splitting.n = 0))
    /\ []((Unstarted /\ output_splitting = SplitAfterRows(2) /\ on_file_completion) =>
            LET w == AfterAbaab(World)
            IN  /\ [i \in 1..Len(w.sinks) |-> w.sinks[i].path]
                      = << <<KeyA, 0>>, <<KeyB, 0>>, <<KeyA, 1>> >>
                /\ \A i \in 1..Len(w.sinks) : w.sinks[i].released
                /\ Len(w.notified) = 3
                /\ {w.notified[j].path : j \in 1..Len(w.notified)}
                      = {<<KeyA, 0>>, <<KeyB, 0>>, <<KeyA, 1>>}
                /\ w.opens = [i \in 1..3 |-> [path |-> w.sinks[i].path, writer |-> i]])

\* C19 witness: under SplitAfterRows(2) with a notifier, a dropped writer whose
\* shard had received exactly two records: one file, notified once, by its
\* rotation, and nothing opened or notified for it by the drop.
C19_Witness ==
    \E k \in DOMAIN handles :
        /\ dropped /\ errors = <<>>
        /\ handles[k].splitting = SplitAfterRows(2) /\ handles[k].on_file_completion
        /\ Len(AcceptedOf(k)) = 2
        /\ Len(SinksOf(k)) = 1
        /\ Cardinality(NotifiedFor(k)) = 1
        /\ Len(accepted) = 3

\* ---------------------------------------------------------------- open sinks
\* The sinks that are open: written to by a shard and not yet released.
OpenSinks == {i \in 1..Len(sinks) : ~sinks[i].released}

\* C20: the number of sinks open at once stays within a bound that does not
\* grow with the number of keys seen.  With the two keys of the model the
\* bound that is independent of the keys is one: once more than one key has
\* been seen, fewer sinks are open than keys have been seen.
C20_OpenSinksBounded ==
    Cardinality(ShardKeysSeen) > 1 =>
        Cardinality(OpenSinks) < Cardinality(ShardKeysSeen)

\* ---------------------------------------------------------------- one record, one shard
\* The data records a sink holds.
DataIn(sink) ==
    LET IsData(e) == e \in Records
    IN  SelectSeq(sink.content, IsData)

\* The step processed exactly one record: one more record accepted, or one
\* more write failed.
OneRecordProcessed ==
    Len(accepted') + Len(errors') = Len(accepted) + Len(errors) + 1

\* The key of the record that step processed.
ProcessedKey ==
    IF Len(accepted') > Len(accepted)
    THEN KeySelector(accepted'[Len(accepted')])
    ELSE errors'[Len(errors')].path[1]

\* The sinks that step opened or changed.
Touched == {i \in 1..Len(sinks') : i > Len(sinks) \/ sinks'[i] # sinks[i]}

\* C21: a step that processes one record with key K writes the record to
\* exactly one sink, a sink of K's shard; it touches sinks of K only, notifies
\* for K only, and leaves the shard of every other key as it was (file in
\* progress, sequence, counter) and in the registry; and at any time each key
\* has at most one open sink, the file its shard has in progress.
C21_OneShardTouched ==
    /\ [][OneRecordProcessed =>
            LET K == ProcessedKey IN
            /\ \A i \in Touched : sinks'[i].key = K
            /\ \A i \in 1..Len(sinks) : sinks[i].key # K => sinks'[i] = sinks[i]
            /\ DOMAIN handles \subseteq DOMAIN handles' \cup {K}
            /\ DOMAIN handles' \subseteq DOMAIN handles \cup {K}
            /\ \A k \in DOMAIN handles \ {K} : handles'[k] = handles[k]
            /\ \A j \in 1..Len(NewlyNotified) : NewlyNotified[j].key = K
            /\ IF Len(accepted') > Len(accepted)
               THEN LET record == accepted'[Len(accepted')]
                        got == {i \in Touched :
                                   DataIn(sinks'[i]) =
                                       Append(IF i > Len(sinks) THEN <<>> ELSE DataIn(sinks[i]),
                                              record)}
                    IN  /\ Cardinality(got) = 1
                        /\ \A i \in Touched \ got : DataIn(sinks'[i]) = <<>>
               ELSE \A i \in Touched : DataIn(sinks'[i]) =
                        IF i > Len(sinks) THEN <<>> ELSE DataIn(sinks[i])]_vars
    /\ [](\A k \in Keys :
            LET open == {i \in OpenSinks : sinks[i].key = k}
            IN  /\ Cardinality(open) <= 1
                /\ ~dropped =>
                      open = IF k \in DOMAIN handles /\ handles[k].current_file # <<>>
                             THEN {handles[k].current_file[1].writer}
                             ELSE {})

\* C21 witness: under SplitAfterRows(2) a call of one record for one key
\* completed that key's file while the other key's shard kept its file in
\* progress with one row counted.
C21_Witness ==
    /\ ~dropped /\ call.ok /\ call.len = 1 /\ call.base = 2
    /\ output_splitting = SplitAfterRows(2)
    /\ LET K == KeySelector(call.selected[1]) IN
       /\ handles[K].current_file = <<>>
       /\ \E k \in DOMAIN handles \ {K} :
             /\ handles[k].current_file # <<>>
             /\ handles[k].current_file[1].written = 1

\* ---------------------------------------------------------------- failed write, file in progress
\* The failed writes to a file that was in progress: the sink had taken a
\* data record before (a first write that fails leaves its file without one).
OpenWriteFailures ==
    {e \in 1..Len(errors) :
        errors[e].kind = "write" /\ errors[e].writer # 0 /\ DataOf(errors[e].writer) # <<>>}

\* The step is a failed write of one record to the file its shard has in
\* progress.
FailedInProgress ==
    /\ OneRecordProcessed
    /\ Len(errors') > Len(errors)
    /\ LET err == errors'[Len(errors')]
       IN  /\ err.kind = "write"
           /\ err.path[1] \in DOMAIN handles
           /\ handles[err.path[1]].current_file # <<>>

\* C22: a write that the sink rejects while the shard has a file in progress
\* returns the error and leaves the shard as it was, on the same file with the
\* same sequence and counter, writes nothing and notifies nothing; the file is
\* not notified while it is in progress, and it is notified exactly once when
\* it is closed later, by a rotation or by the drop of the writer.
C22_FailedWriteKeepsFile ==
    /\ [][FailedInProgress =>
            LET err == errors'[Len(errors')]
                K == err.path[1]
            IN  /\ ~call'.ok
                /\ handles' = handles
                /\ handles'[K].current_file # <<>>
                /\ handles'[K].current_file[1].writer = err.writer
                /\ err.path = handles[K].current_file[1].path
                /\ sinks' = sinks
                /\ notified' = notified]_vars
    /\ [](\A e \in OpenWriteFailures :
            LET i == errors[e].writer
                K == errors[e].path[1]
            IN  /\ dropped => sinks[i].released
                /\ (~dropped /\ ~sinks[i].released) =>
                      /\ handles[K].current_file # <<>>
                      /\ handles[K].current_file[1].writer = i
                /\ TimesNotified(i) =
                      IF sinks[i].released /\ handles[K].on_file_completion THEN 1 ELSE 0)

\* C22 witness: with a notifier, under SplitAfterRows(2), the second write to
\* a file failed, the file stayed in progress, and the next record of the key
\* filled and closed it, notified once.
C22_Witness ==
    \E e \in OpenWriteFailures :
        LET i == errors[e].writer IN
        /\ ~dropped /\ on_file_completion
        /\ output_splitting = SplitAfterRows(2)
        /\ sinks[i].released
        /\ Len(DataOf(i)) = 2
        /\ TimesNotified(i) = 1

====
